---------------------------- MODULE Spec2Model ----------------------------
(***************************************************************************)
(* A model of the Hill cipher modulo 97 of hill_cipher.h: the character    *)
(* table, encrypt/decrypt, and impl_details::inverse_of (the 2 x 2 closed  *)
(* form and the Gauss-Jordan elimination for larger keys), the latter one  *)
(* row operation at a time.                                                *)
(***************************************************************************)
EXTENDS Integers, Sequences, FiniteSets, TLC

\* The modulus of z97 = int_mod<97>.
P == 97

\* Key entries of the keys handed to inverse_of range over 0..MaxVal.
MaxVal == 2

\* Key entries of the 2 x 2 keys handed to encrypt/decrypt range over 0..CipherMaxVal.
CipherMaxVal == 2

\* Longest enumerated plaintext.
MaxLen == 3

\* Key entries of the keys of the termination check range over 0..LiveMaxVal.
LiveMaxVal == 2

\* Key sizes (the template parameter `size`) instantiated exhaustively.
Sizes == {2, 3}

\* std::size_t arithmetic wraps modulo 2^64.  TLC's integers are 32 bits wide,
\* so the model wraps modulo 2^30: a wrapped index is then, as in the program,
\* larger than every key size.
WordMod == 2^30

---------------------------------------------------------------------------
(* z97: integers modulo 97, always held as the representative in 0..96.    *)

Z97 == 0 .. (P - 1)

\* Construction from an integer reduces it into 0..96.
ToZ97(x) == x % P

ZAdd(a, b) == (a + b) % P
ZSub(a, b) == (a - b) % P
ZMul(a, b) == (a * b) % P
ZNeg(a) == (P - a) % P

\* The multiplicative inverse of a nonzero element.
ZInv == [b \in 1 .. (P - 1) |-> CHOOSE x \in 1 .. (P - 1) : (b * x) % P = 1]

\* a / b for b # 0; the callers below test b = 0 first, where the library fails.
ZDiv(a, b) == ZMul(a, ZInv[b])

---------------------------------------------------------------------------
(* matrix_t<z97, n, n>: a function 0..n-1 -> 0..n-1 -> Z97.                *)

Idx(n) == 0 .. (n - 1)

ZeroMatrix(n) == [r \in Idx(n) |-> [c \in Idx(n) |-> 0]]

Identity(n) == [r \in Idx(n) |-> [c \in Idx(n) |-> IF r = c THEN 1 ELSE 0]]

RECURSIVE DotFrom(_, _, _, _, _)
\* sum over t in from..n-1 of A[r][t] * B[t][c], accumulated left to right.
DotFrom(A, B, r, c, t) ==
    IF t \notin DOMAIN A[r] THEN 0
    ELSE ZAdd(ZMul(A[r][t], B[t][c]), DotFrom(A, B, r, c, t + 1))

\* operator* of two square matrices.
MatMul(A, B) == [r \in DOMAIN A |-> [c \in DOMAIN A |-> DotFrom(A, B, r, c, 0)]]

RECURSIVE Det(_)
\* The determinant over z97, by Laplace expansion along row 0.  Used only to
\* state which keys are singular.
Det(A) ==
    LET n == Cardinality(DOMAIN A)
        Minor(c) == [r \in Idx(n - 1) |->
                       [q \in Idx(n - 1) |-> A[r + 1][IF q < c THEN q ELSE q + 1]]]
        RECURSIVE Expand(_)
        Expand(c) ==
            IF c = n THEN 0
            ELSE LET term == ZMul(A[0][c], Det(Minor(c)))
                 IN  ZAdd(IF c % 2 = 0 THEN term ELSE ZNeg(term), Expand(c + 1))
    IN  IF n = 1 THEN A[0][0] ELSE Expand(0)

---------------------------------------------------------------------------
(* impl_details::inverse_of.  A machine state s is a record                *)
(*   size, key, dec_key : the template parameter and the two matrices      *)
(*   pc                 : "entry", "pivot", "elim", "norm", "back",        *)
(*                        "done", "throw", "oob"                           *)
(*   i, k, row, max_row : the loop variables of the code                   *)
(*   err                : "none", "NotInvertible", "DivisionByZero" or     *)
(*                        "OutOfBounds"                                    *)

Terminal == {"done", "throw", "oob"}

\* The call inverse_of(K): key is the by-value copy, dec_key default-constructed.
Call(K) ==
    LET n == Cardinality(DOMAIN K)
    IN  [size |-> n, key |-> K, dec_key |-> ZeroMatrix(n), pc |-> "entry",
         i |-> 0, k |-> 0, row |-> 0, max_row |-> 0, err |-> "none"]

Throw(s, e) == [s EXCEPT !.pc = "throw", !.err = e]

\* The 2 x 2 closed form once the determinant test has passed.
Closed2(s) ==
    LET a == s.key[0][0]
        b == s.key[0][1]
        c == s.key[1][0]
        d == s.key[1][1]
        det == ZSub(ZMul(a, d), ZMul(b, c))
    IN  IF det = 0 THEN Throw(s, "DivisionByZero")
        ELSE [s EXCEPT !.pc = "done",
                       !.dec_key = [r \in Idx(2) |-> [q \in Idx(2) |->
                            IF r = 0 /\ q = 0 THEN ZDiv(d, det)
                            ELSE IF r = 0 /\ q = 1 THEN ZDiv(ZNeg(b), det)
                            ELSE IF r = 1 /\ q = 0 THEN ZDiv(ZNeg(c), det)
                            ELSE ZDiv(a, det)]]]

\* Inverse2 with the factors of the determinant test paired wrongly.
Inverse2_SwappedTest(s) ==
    IF ZMul(s.key[0][0], s.key[0][1]) = ZMul(s.key[1][1], s.key[1][0])
    THEN Throw(s, "NotInvertible")
    ELSE Closed2(s)

\* size == 2: the determinant test, then the closed form.
Inverse2(s) ==
    IF ZMul(s.key[0][0], s.key[1][1]) = ZMul(s.key[0][1], s.key[1][0])
    THEN Throw(s, "NotInvertible")
    ELSE Closed2(s)

\* The head of the descending loop `for( auto i = size - 1; i >= 0; --i )`:
\* i is a std::size_t, so the test i >= 0 always passes.
EnterBack(s, i0) == [s EXCEPT !.i = i0, !.pc = "norm"]

\* The heads of the two nested forward loops, entered with s.k already set:
\* the next row k below the pivot, else the next pivot column, else the
\* descending loop.
ForwardNext(s) ==
    IF s.k < s.size THEN [s EXCEPT !.pc = "elim"]
    ELSE IF s.i + 1 < s.size THEN [s EXCEPT !.i = s.i + 1, !.pc = "pivot"]
    ELSE EnterBack([s EXCEPT !.i = s.i + 1], (s.size - 1) % WordMod)

\* size > 2: dec_key becomes the identity, then the pivot loop starts at i = 0.
InitIdentity(s) ==
    LET t == [s EXCEPT !.dec_key = Identity(s.size), !.i = 0]
    IN  IF 0 < s.size THEN [t EXCEPT !.pc = "pivot"]
        ELSE EnterBack(t, (s.size - 1) % WordMod)

\* Scan with >= for >: the last of several maximal rows wins.
RECURSIVE ScanGE(_, _, _, _)
ScanGE(s, kk, max_element, max_row) ==
    IF kk >= s.size THEN max_row
    ELSE IF s.key[kk][s.i] >= max_element
         THEN ScanGE(s, kk + 1, s.key[kk][s.i], kk)
         ELSE ScanGE(s, kk + 1, max_element, max_row)

RECURSIVE Scan(_, _, _, _)
\* The scan for( auto k = i + 1; k < size; ++k ) for the largest representative.
Scan(s, kk, max_element, max_row) ==
    IF kk >= s.size THEN max_row
    ELSE IF s.key[kk][s.i] > max_element
         THEN Scan(s, kk + 1, s.key[kk][s.i], kk)
         ELSE Scan(s, kk + 1, max_element, max_row)

MaxRow_LastOnTies(s) == ScanGE(s, s.i + 1, s.key[s.i][s.i], s.i)

\* max_row after the scan of column i.
MaxRow(s) == Scan(s, s.i + 1, s.key[s.i][s.i], s.i)

\* Rows a and b of M exchanged, every column.
SwapRows(M, a, b) == [M EXCEPT ![a] = M[b], ![b] = M[a]]

\* SwapBoth without the exchange in dec_key.
SwapBoth_KeyOnly(s, mr) ==
    IF s.i < mr
    THEN [s EXCEPT !.key = SwapRows(s.key, s.i, mr), !.max_row = mr]
    ELSE [s EXCEPT !.max_row = mr]

\* if( i < max_row ): the swap of rows i and max_row in key and in dec_key.
SwapBoth(s, mr) ==
    IF s.i < mr
    THEN [s EXCEPT !.key = SwapRows(s.key, s.i, mr),
                   !.dec_key = SwapRows(s.dec_key, s.i, mr),
                   !.max_row = mr]
    ELSE [s EXCEPT !.max_row = mr]

\* One pass of the pivot loop up to the elimination loop: select, swap, k = i + 1.
Pivot(s) ==
    LET t == SwapBoth(s, MaxRow(s))
    IN  ForwardNext([t EXCEPT !.k = s.i + 1])

\* EliminateRow without the row operation on dec_key.
EliminateRow_NoDecKey(s) ==
    LET piv == s.key[s.i][s.i]
    IN  IF piv = 0 THEN Throw(s, "DivisionByZero")
        ELSE LET d == ZDiv(s.key[s.k][s.i], piv)
                 nk == [j \in Idx(s.size) |->
                          ZSub(s.key[s.k][j], ZMul(d, s.key[s.i][j]))]
             IN  ForwardNext([s EXCEPT !.key[s.k] = nk, !.k = s.k + 1])

\* d = key[k][i] / key[i][i], then row k -= d * row i in both matrices; ++k.
EliminateRow(s) ==
    LET piv == s.key[s.i][s.i]
    IN  IF piv = 0 THEN Throw(s, "DivisionByZero")
        ELSE LET d == ZDiv(s.key[s.k][s.i], piv)
                 nk == [j \in Idx(s.size) |->
                          ZSub(s.key[s.k][j], ZMul(d, s.key[s.i][j]))]
                 nd == [j \in Idx(s.size) |->
                          ZSub(s.dec_key[s.k][j], ZMul(d, s.dec_key[s.i][j]))]
             IN  ForwardNext([s EXCEPT !.key[s.k] = nk, !.dec_key[s.k] = nd,
                                       !.k = s.k + 1])

\* Eliminate without the test of the pivot against zero.
Eliminate_NoPivotTest(s) == EliminateRow(s)

\* One pass of the elimination loop body: the zero-pivot test, then the row operation.
Eliminate(s) ==
    IF s.key[s.i][s.i] = 0 THEN Throw(s, "NotInvertible") ELSE EliminateRow(s)

\* An access key[r][..] or dec_key[r][..] with r outside 0..size-1.
OutOfBounds(s) == [s EXCEPT !.pc = "oob", !.err = "OutOfBounds"]

\* dec_key[i][j] /= key[i][i] for every j; key[i][i] = 1; then the branch on i != 0.
NormalizeRow(s) ==
    LET piv == s.key[s.i][s.i]
    IN  IF piv = 0 THEN Throw(s, "DivisionByZero")
        ELSE LET nd == [j \in Idx(s.size) |-> ZDiv(s.dec_key[s.i][j], piv)]
                 t == [s EXCEPT !.dec_key[s.i] = nd, !.key[s.i][s.i] = 1]
             IN  IF s.i # 0
                 THEN [t EXCEPT !.row = (s.i - 1) % WordMod, !.pc = "back"]
                 ELSE [t EXCEPT !.pc = "done"]

\* One pass of the descending loop up to the inner loop.
Normalize(s) ==
    IF s.i \notin Idx(s.size) THEN OutOfBounds(s)
    ELSE IF s.key[s.i][s.i] = 0 THEN Throw(s, "NotInvertible")
    ELSE NormalizeRow(s)

\* BackNext without the break at row == 0.
BackNext_NoBreak(s) ==
    [s EXCEPT !.row = (s.row - 1) % WordMod]

\* What follows the inner loop body: break at row == 0 (then --i of the outer
\* loop), else --row.
BackNext(s) ==
    IF s.row = 0
    THEN EnterBack(s, (s.i - 1) % WordMod)
    ELSE [s EXCEPT !.row = (s.row - 1) % WordMod]

\* One pass of the inner loop: dec_key[row] -= dec_key[i] * key[row][i];
\* key[row][i] = 0.
BackSubstitute(s) ==
    IF s.row \notin Idx(s.size) \/ s.i \notin Idx(s.size) THEN OutOfBounds(s)
    ELSE LET nd == [c \in Idx(s.size) |->
                      ZSub(s.dec_key[s.row][c], ZMul(s.dec_key[s.i][c], s.key[s.row][s.i]))]
         IN  BackNext([s EXCEPT !.dec_key[s.row] = nd, !.key[s.row][s.i] = 0])

\* The body of inverse_of from its entry: if constexpr ( size == 2 ).
Entry(s) == IF s.size = 2 THEN Inverse2(s) ELSE InitIdentity(s)

Step(s) ==
    CASE s.pc = "entry" -> Entry(s)
      [] s.pc = "pivot" -> Pivot(s)
      [] s.pc = "elim"  -> Eliminate(s)
      [] s.pc = "norm"  -> Normalize(s)
      [] s.pc = "back"  -> BackSubstitute(s)

RECURSIVE Run(_)
Run(s) == IF s.pc \in Terminal THEN s ELSE Run(Step(s))

\* inverse_of(K) as a whole: the final machine state (pc = "done": dec_key is
\* returned; pc = "throw": err is the exception).
inverse_of(K) == Run(Call(K))

---------------------------------------------------------------------------
(* The character table.  A char is its code, a std::string a sequence of   *)
(* codes.                                                                  *)

\* Every value of a char.
CharCodes == 0 .. 255

\* ' ', the character encrypt pads with.
Space == 32

\* ch_table with 'A' in the place of 'B'.
ch_table_DuplicateEntry ==
    <<65, 65, 67, 68, 69, 70, 71, 72, 73, 74, 75, 76, 77,
      78, 79, 80, 81, 82, 83, 84, 85, 86, 87, 88, 89, 90,
      97, 98, 99, 100, 101, 102, 103, 104, 105, 106, 107, 108, 109,
      110, 111, 112, 113, 114, 115, 116, 117, 118, 119, 120, 121, 122,
      48, 49, 50, 51, 52, 53, 54, 55, 56, 57,
      32, 126, 45, 61, 33, 64, 35, 36, 37, 94, 38, 42, 40, 41, 95, 43,
      91, 93, 59, 39, 44, 46, 47, 123, 125, 58, 34, 60, 62, 63, 96, 92, 124, 9, 10>>

\* 'A'..'Z', 'a'..'z', '0'..'9', then
\* ' ' ~ - = ! @ # $ % ^ & * ( ) _ + [ ] ; ' , . / { } : " < > ? ` \ | tab newline.
ch_table ==
    <<65, 66, 67, 68, 69, 70, 71, 72, 73, 74, 75, 76, 77,
      78, 79, 80, 81, 82, 83, 84, 85, 86, 87, 88, 89, 90,
      97, 98, 99, 100, 101, 102, 103, 104, 105, 106, 107, 108, 109,
      110, 111, 112, 113, 114, 115, 116, 117, 118, 119, 120, 121, 122,
      48, 49, 50, 51, 52, 53, 54, 55, 56, 57,
      32, 126, 45, 61, 33, 64, 35, 36, 37, 94, 38, 42, 40, 41, 95, 43,
      91, 93, 59, 39, 44, 46, 47, 123, 125, 58, 34, 60, 62, 63, 96, 92, 124, 9, 10>>

\* ch_table[num.value()], the table being indexed from 0 in the code.
z97_to_char(num) == ch_table[num + 1]

RECURSIVE Find(_, _)
\* std::find over the table from (1-based) position p: the first position
\* holding c, or one past the end.
Find(c, p) ==
    IF p > Len(ch_table) THEN p
    ELSE IF ch_table[p] = c THEN p
    ELSE Find(c, p + 1)

\* std::distance(begin, find(begin, end, c)), converted to z97: a character
\* that is not in the table gives the distance 97, which the conversion
\* reduces to 0.
char_to_z97(c) == ToZ97(Find(c, 1) - 1)

---------------------------------------------------------------------------
(* encrypt and decrypt.  A call's outcome is a record: returned, the       *)
(* string returned (text) and the exception raised (err, "none" if none).  *)

Returned(text) == [returned |-> TRUE, err |-> "none", text |-> text]

Raised(e) == [returned |-> FALSE, err |-> e, text |-> <<>>]

\* Pad with 'A' (the character of field value 0) for ' '.
RECURSIVE Pad_WithA(_, _)
Pad_WithA(pt, n) == IF Len(pt) % n # 0 THEN Pad_WithA(Append(pt, 65), n) ELSE pt

RECURSIVE Pad(_, _)
\* while( (pt.length() % size) != 0 ) pt += ' ';
Pad(pt, n) == IF Len(pt) % n # 0 THEN Pad(Append(pt, Space), n) ELSE pt

\* The message blocks: block b (from 0) holds the characters at b*n .. b*n + n - 1.
PlainTextBlocks(pt, n) ==
    [b \in 1 .. (Len(pt) \div n) |->
        [j \in Idx(n) |-> char_to_z97(pt[(b - 1) * n + j + 1])]]

RECURSIVE RowDot(_, _, _, _)
RowDot(K, v, r, t) ==
    IF t \notin DOMAIN v THEN 0
    ELSE ZAdd(ZMul(K[r][t], v[t]), RowDot(K, v, r, t + 1))

\* key * block: an n x n matrix times an n x 1 matrix.
MatVec(K, v) == [r \in DOMAIN K |-> RowDot(K, v, r, 0)]

RECURSIVE BlockChars(_, _, _)
\* for( j = 0; j < size; ++j ) ct += z97_to_char(block[j][0]), from j on.
BlockChars(blk, j, n) ==
    IF j >= n THEN <<>> ELSE <<z97_to_char(blk[j])>> \o BlockChars(blk, j + 1, n)

RECURSIVE Concat(_, _, _)
\* The ciphertext blocks from (1-based) block b on, turned into characters.
Concat(blocks, b, n) ==
    IF b > Len(blocks) THEN <<>>
    ELSE BlockChars(blocks[b], 0, n) \o Concat(blocks, b + 1, n)

encrypt(K, pt) ==
    LET n == Cardinality(DOMAIN K)
        padded == Pad(pt, n)
        plain_text_blocks == PlainTextBlocks(padded, n)
        cipher_text_blocks == [b \in DOMAIN plain_text_blocks |->
                                 MatVec(K, plain_text_blocks[b])]
    IN  Returned(Concat(cipher_text_blocks, 1, n))

\* decrypt without the inversion of the key.
decrypt_WithKey(K, ct) == encrypt(K, ct)

\* encrypt(inverse_of(key), ct): the exception of inverse_of propagates.
decrypt(K, ct) ==
    LET r == inverse_of(K)
    IN  IF r.pc = "done" THEN encrypt(r.dec_key, ct) ELSE Raised(r.err)

---------------------------------------------------------------------------
(* The keys and texts of the tests and of the README.                      *)

\* tests/test.cpp: key[i][j] = 2*i - 3*j if i < j, else 5*i + j (size 2).
TestKey2 == [r \in Idx(2) |-> [c \in Idx(2) |->
                IF r < c THEN ToZ97(2 * r - 3 * c) ELSE ToZ97(5 * r + c)]]

\* tests/test.cpp and the README: key[i][j] = 5*i - 2*j if i < j, else 3*i + j (size 5).
TestKey5 == [r \in Idx(5) |-> [c \in Idx(5) |->
                IF r < c THEN ToZ97(5 * r - 2 * c) ELSE ToZ97(3 * r + c)]]

\* "Hill Cipher!"
HillCipherText == <<72, 105, 108, 108, 32, 67, 105, 112, 104, 101, 114, 33>>

\* "`t.T?f^cH2\d", what the test requires encrypt(TestKey2, "Hill Cipher!") to be.
HillCipherExpected == <<96, 116, 46, 84, 63, 102, 94, 99, 72, 50, 92, 100>>

\* "Hello, world!"
HelloWorldText == <<72, 101, 108, 108, 111, 44, 32, 119, 111, 114, 108, 100, 33>>

\* "aVAn1%,Ew-^t-F[", what the test requires encrypt(TestKey5, "Hello, world!") to be.
HelloWorldExpected ==
    <<97, 86, 65, 110, 49, 37, 44, 69, 119, 45, 94, 116, 45, 70, 91>>

---------------------------------------------------------------------------
(* The inputs the model runs the program on.                               *)

KeysOver(n, vals) == [Idx(n) -> [Idx(n) -> vals]]

\* The keys inverse_of is run on.
InverseKeys ==
    (UNION {KeysOver(n, 0 .. MaxVal) : n \in Sizes}) \cup {TestKey2, TestKey5}

\* The keys inverse_of is run on in the termination check: every 2 x 2 key
\* and every symmetric 3 x 3 key over 0..LiveMaxVal, and every 3 x 3 key over
\* {0, 1} (every pattern of zero and nonzero entries).
LiveKeys ==
    KeysOver(2, 0 .. LiveMaxVal)
        \cup KeysOver(3, {0, 1})
        \cup {K \in KeysOver(3, 0 .. LiveMaxVal) :
                 \A r \in Idx(3) : \A c \in Idx(3) : K[r][c] = K[c][r]}
        \cup {TestKey2, TestKey5}

\* The keys encrypt and decrypt are run on.
CipherKeys ==
    KeysOver(2, 0 .. CipherMaxVal) \cup KeysOver(3, {0, 1}) \cup {TestKey2, TestKey5}

\* The characters of the enumerated texts: ' ', '\n' (the last table entry)
\* and the control character BEL, which is not in the table.
CipherChars == {32, 10, 7}

\* The texts encrypt and decrypt are run on.
CipherTexts ==
    (UNION {[1 .. n -> CipherChars] : n \in 0 .. MaxLen})
        \cup {HillCipherText, HelloWorldText}

---------------------------------------------------------------------------
VARIABLES
    K0,                 \* the key inverse_of was called with
    size, key, dec_key, pc, i, k, row, max_row, err,   \* inverse_of's state
    ckey, pt,           \* the caller's key and text
    ct, rt,             \* the outcomes of encrypt(ckey, pt) and of the decrypt call
    phase,              \* "input", "encrypted", "roundtrip", "decrypted"
    tc, tf,             \* a char and a field value
    tz, tch,            \* char_to_z97(tc) and z97_to_char(tf)
    tzc, tcz,           \* z97_to_char(tz) and char_to_z97(tch)
    tphase              \* "input", "converted", "back"

inv_vars == <<K0, size, key, dec_key, pc, i, k, row, max_row, err>>

cipher_vars == <<ckey, pt, ct, rt, phase>>

table_vars == <<tc, tf, tz, tch, tzc, tcz, tphase>>

vars == <<inv_vars, cipher_vars, table_vars>>

\* The outcome of a call that has not been made.
Pending == [returned |-> FALSE, err |-> "pending", text |-> <<>>]

\* No call of inverse_of under way.
InverseIdle ==
    /\ K0 = ZeroMatrix(2)
    /\ size = 2
    /\ key = ZeroMatrix(2)
    /\ dec_key = ZeroMatrix(2)
    /\ pc = "idle"
    /\ i = 0 /\ k = 0 /\ row = 0 /\ max_row = 0
    /\ err = "none"

\* No call of encrypt or decrypt under way.
CipherIdle ==
    /\ ckey = ZeroMatrix(2)
    /\ pt = <<>>
    /\ ct = Pending
    /\ rt = Pending
    /\ phase = "idle"

\* No table lookup under way.
TableIdle ==
    /\ tc = 0 /\ tf = 0 /\ tz = 0 /\ tch = 0 /\ tzc = 0 /\ tcz = 0
    /\ tphase = "idle"

---------------------------------------------------------------------------
(* Spec: one call of inverse_of, one row operation per step.               *)

\* The machine state held in the variables.
Cur == [size |-> size, key |-> key, dec_key |-> dec_key, pc |-> pc,
        i |-> i, k |-> k, row |-> row, max_row |-> max_row, err |-> err]

Becomes(s) ==
    /\ size' = s.size
    /\ key' = s.key
    /\ dec_key' = s.dec_key
    /\ pc' = s.pc
    /\ i' = s.i
    /\ k' = s.k
    /\ row' = s.row
    /\ max_row' = s.max_row
    /\ err' = s.err
    /\ UNCHANGED <<K0, cipher_vars, table_vars>>

\* inverse_of has just been called with K0.
Called ==
    /\ LET s == Call(K0)
       IN  /\ size = s.size
           /\ key = s.key
           /\ dec_key = s.dec_key
           /\ pc = s.pc
           /\ i = s.i
           /\ k = s.k
           /\ row = s.row
           /\ max_row = s.max_row
           /\ err = s.err
    /\ CipherIdle
    /\ TableIdle

Init == K0 \in InverseKeys /\ Called

LiveInit == K0 \in LiveKeys /\ Called

ClosedForm2x2 == pc = "entry" /\ size = 2 /\ Becomes(Inverse2(Cur))

InitAugmented == pc = "entry" /\ size # 2 /\ Becomes(InitIdentity(Cur))

PivotStep == pc = "pivot" /\ Becomes(Pivot(Cur))

EliminateStep == pc = "elim" /\ Becomes(Eliminate(Cur))

NormalizeStep == pc = "norm" /\ Becomes(Normalize(Cur))

BackSubstituteStep == pc = "back" /\ Becomes(BackSubstitute(Cur))

Next ==
    \/ ClosedForm2x2
    \/ InitAugmented
    \/ PivotStep
    \/ EliminateStep
    \/ NormalizeStep
    \/ BackSubstituteStep

Spec == Init /\ [][Next]_vars

\* The call runs on its own thread of control to its end: a step that can be
\* taken is taken.
LiveSpec == LiveInit /\ [][Next]_vars /\ WF_vars(Next)

---------------------------------------------------------------------------
(* CipherSpec: encrypt(ckey, pt), then decrypt of its result; or decrypt    *)
(* of pt taken as a ciphertext.                                            *)

CipherInit ==
    /\ ckey \in CipherKeys
    /\ pt \in CipherTexts
    /\ ct = Pending
    /\ rt = Pending
    /\ phase = "input"
    /\ InverseIdle
    /\ TableIdle

Encrypt ==
    /\ phase = "input"
    /\ ct' = encrypt(ckey, pt)
    /\ phase' = "encrypted"
    /\ UNCHANGED <<ckey, pt, rt, inv_vars, table_vars>>

DecryptCiphertext ==
    /\ phase = "encrypted"
    /\ ct.returned
    /\ rt' = decrypt(ckey, ct.text)
    /\ phase' = "roundtrip"
    /\ UNCHANGED <<ckey, pt, ct, inv_vars, table_vars>>

DecryptInput ==
    /\ phase = "input"
    /\ rt' = decrypt(ckey, pt)
    /\ phase' = "decrypted"
    /\ UNCHANGED <<ckey, pt, ct, inv_vars, table_vars>>

CipherNext == Encrypt \/ DecryptCiphertext \/ DecryptInput

CipherSpec == CipherInit /\ [][CipherNext]_vars

---------------------------------------------------------------------------
(* TableSpec: the two table lookups, and each applied to the other's       *)
(* result.                                                                 *)

TableInit ==
    /\ tc \in CharCodes
    /\ tf \in Z97
    /\ tz = 0 /\ tch = 0 /\ tzc = 0 /\ tcz = 0
    /\ tphase = "input"
    /\ InverseIdle
    /\ CipherIdle

Convert ==
    /\ tphase = "input"
    /\ tz' = char_to_z97(tc)
    /\ tch' = z97_to_char(tf)
    /\ tphase' = "converted"
    /\ UNCHANGED <<tc, tf, tzc, tcz, inv_vars, cipher_vars>>

ConvertBack ==
    /\ tphase = "converted"
    /\ tzc' = z97_to_char(tz)
    /\ tcz' = char_to_z97(tch)
    /\ tphase' = "back"
    /\ UNCHANGED <<tc, tf, tz, tch, inv_vars, cipher_vars>>

TableNext == Convert \/ ConvertBack

TableSpec == TableInit /\ [][TableNext]_vars

---------------------------------------------------------------------------
(* Properties of inverse_of (Spec, LiveSpec).                              *)

\* C1: whenever inverse_of has ended on a key whose determinant is nonzero
\* mod 97, it has returned (not thrown) a matrix dec_key with
\* K0 x dec_key = identity and dec_key x K0 = identity, for the 2 x 2 closed
\* form and for the Gauss-Jordan path alike.
C1_InverseIsTwoSided ==
    (pc \in Terminal /\ Det(K0) # 0) =>
        /\ pc = "done"
        /\ MatMul(K0, dec_key) = Identity(size)
        /\ MatMul(dec_key, K0) = Identity(size)

\* A 3 x 3 key with a zero in the first pivot position (so rows were
\* exchanged) has been inverted.
C1_Witness == pc = "done" /\ size = 3 /\ K0[0][0] = 0 /\ Det(K0) # 0

\* C7: the only exception inverse_of raises is NotInvertible: no division it
\* executes (by the 2 x 2 determinant, by the pivot in the elimination, by
\* the diagonal in the back-substitution) has a zero divisor.
C7_OnlyNotInvertible ==
    /\ err \in {"none", "NotInvertible"}
    /\ pc = "throw" => err = "NotInvertible"
    /\ pc \in Terminal => pc \in {"done", "throw"}

\* The Gauss-Jordan path has run to its end, every division executed.
C7_Witness == pc = "done" /\ size > 2 /\ err = "none" /\ i = 0

\* The row the claim says is moved into position c: the lowest-index row
\* among rows c..n-1 whose representative in column c is maximal.
LowestMaximalRow(M, c, n) ==
    CHOOSE r \in c .. (n - 1) :
        /\ \A q \in c .. (n - 1) : M[q][c] <= M[r][c]
        /\ \A q \in c .. (r - 1) : M[q][c] < M[r][c]

\* C8: each pivot step at column i exchanges row i with the lowest-index row
\* of maximal representative in column i among rows i..n-1, in key and in
\* dec_key alike, and changes no other row (nothing at all when that row is
\* row i itself).
C8_PivotSelection ==
    [][pc = "pivot" =>
         LET r == LowestMaximalRow(key, i, size)
         IN  /\ max_row' = r
             /\ key' = SwapRows(key, i, r)
             /\ dec_key' = SwapRows(dec_key, i, r)
             /\ r = i => (key' = key /\ dec_key' = dec_key)]_vars

\* Just after a pivot step that exchanged rows although a later row tied
\* with the chosen one.
C8_Witness ==
    /\ pc = "elim" /\ k = i + 1
    /\ max_row > i
    /\ \E q \in (max_row + 1) .. (size - 1) : key[q][i] = key[i][i]

\* Every index the descending loops use lies in 0..size-1.
IndexInBounds ==
    /\ pc # "oob"
    /\ pc \in {"norm", "back"} => i \in Idx(size)
    /\ pc = "back" => row \in Idx(size)

\* C9: inverse_of ends, by returning or by raising NotInvertible, and the
\* indices i and row of the descending loops never leave 0..size-1 (they
\* are never decremented past zero).
C9_TerminatesInBounds == []IndexInBounds /\ <>(pc \in {"done", "throw"})

\* The inner descending loop has counted row down to 0 from below the last row.
C9_Witness == pc = "back" /\ size > 2 /\ i = size - 1 /\ row = 0

\* C10: on the Gauss-Jordan path, after every completed row operation
\* dec_key x K0 = key, and on return key is the identity.
C10_LoopInvariant ==
    (size > 2 /\ pc \notin {"entry", "idle"}) =>
        /\ MatMul(dec_key, K0) = key
        /\ pc = "done" => key = Identity(size)

\* In the back-substitution of a 3 x 3 key whose rows were exchanged.
C10_Witness == pc = "back" /\ size = 3 /\ i = 1 /\ K0[0][0] = 0 /\ K0[1][1] = 2

---------------------------------------------------------------------------
(* Properties of encrypt and decrypt (CipherSpec).                         *)

\* The characters of the table.
TableChars == {ch_table[x] : x \in DOMAIN ch_table}

AllInTable(text) == \A x \in DOMAIN text : text[x] \in TableChars

\* The position (from 0) of a table character in the table.
IndexOf(c) == CHOOSE x \in Z97 : ch_table[x + 1] = c

Spaces(m) == [x \in 1 .. m |-> Space]

\* The number of characters to add to a text of length len for key size n.
PadLength(len, n) == (n - (len % n)) % n

KeySize == Cardinality(DOMAIN ckey)

\* C2: on a key whose determinant is zero mod 97, inverse_of raises
\* NotInvertible and returns nothing, and so does decrypt, whatever the
\* ciphertext.
C2_SingularKeyFails ==
    (phase \in {"roundtrip", "decrypted"} /\ Det(ckey) = 0) =>
        /\ inverse_of(ckey).pc = "throw"
        /\ inverse_of(ckey).err = "NotInvertible"
        /\ rt = Raised("NotInvertible")

\* decrypt has been called with a singular 3 x 3 key whose zero pivot only
\* shows up after an elimination (its first column has a nonzero entry).
C2_Witness ==
    /\ phase = "decrypted" /\ KeySize = 3 /\ Det(ckey) = 0
    /\ ckey[1][0] = 1 /\ Len(pt) > 0

\* C3: for an invertible key and a plaintext of table characters,
\* decrypt(K, encrypt(K, P)) is P followed by (n - len(P) % n) % n spaces.
C3_RoundTrip ==
    (phase = "roundtrip" /\ AllInTable(pt) /\ Det(ckey) # 0) =>
        rt = Returned(pt \o Spaces(PadLength(Len(pt), KeySize)))

\* A round trip through a 3 x 3 key of a text that needed padding.
C3_Witness ==
    /\ phase = "roundtrip" /\ AllInTable(pt) /\ Det(ckey) # 0
    /\ KeySize = 3 /\ Len(pt) % 3 = 1 /\ rt.returned

RECURSIVE SumProducts(_, _, _, _, _)
\* sum over t in t..n-1 of K[r][t] * index(text[b*n + t]), in the integers.
SumProducts(K, text, b, r, t) ==
    IF t \notin DOMAIN K THEN 0
    ELSE K[r][t] * IndexOf(text[b * Cardinality(DOMAIN K) + t + 1])
            + SumProducts(K, text, b, r, t + 1)

\* C4: for a plaintext P of table characters, with P' = P padded with spaces
\* to the next multiple of n, encrypt(K, P) has the length of P' and its
\* character at b*n + r is table[(sum_k K[r][k] * index(P'[b*n + k])) mod 97];
\* the known answers of the tests are instances.
C4_EncryptReference ==
    (phase = "encrypted" /\ AllInTable(pt)) =>
        LET n == KeySize
            padded == pt \o Spaces(PadLength(Len(pt), n))
        IN  /\ ct.returned
            /\ Len(ct.text) = Len(padded)
            /\ \A b \in 0 .. ((Len(padded) \div n) - 1) : \A r \in Idx(n) :
                   ct.text[b * n + r + 1]
                       = ch_table[(SumProducts(ckey, padded, b, r, 0) % P) + 1]
            /\ (ckey = TestKey2 /\ pt = HillCipherText) => ct.text = HillCipherExpected
            /\ (ckey = TestKey5 /\ pt = HelloWorldText) => ct.text = HelloWorldExpected

\* The README's example has been encrypted: three blocks, two spaces of padding.
C4_Witness ==
    /\ phase = "encrypted" /\ ckey = TestKey5 /\ pt = HelloWorldText
    /\ Len(ct.text) = 15

\* C5 (as claimed): encrypt of a plaintext holding a character that is not
\* in the table raises UnknownCharacter and returns no ciphertext.
C5_UnknownCharacterFails ==
    (phase = "encrypted" /\ ~AllInTable(pt)) => ct = Raised("UnknownCharacter")

---------------------------------------------------------------------------
(* Properties of the character table (TableSpec).                          *)

\* C6: the two lookups are inverse to each other: z97_to_char(char_to_z97(c))
\* = c for every table character c, and char_to_z97(z97_to_char(f)) = f for
\* every field value f.
C6_TableBijection ==
    tphase = "back" =>
        /\ tc \in TableChars => tzc = tc
        /\ tcz = tf

\* Both round trips have been made, from the last table character ('\n')
\* and from the last field value.
C6_Witness == tphase = "back" /\ tc = 10 /\ tf = 96 /\ tz = 96 /\ tch = 10

=============================================================================
